---- MODULE Spec2Model ----
(***************************************************************************)
(* A model of the JSON validator of adedotxn/json-parser: class Lexer,      *)
(* class Parser, parseJSON and main, in its two variants: the complete     *)
(* grammar (objects, arrays, checked numbers) and the earlier objects-only *)
(* src/json-parser.ts (flat objects, unchecked digit runs).                *)
(*                                                                         *)
(* A document is a sequence of one-character strings.  The Lexer is        *)
(* modelled as a small step machine (one step per cursor assignment), run  *)
(* to completion by NextToken in Spec and one step at a time by LexerStep  *)
(* in SpecSteps.  The recursive-descent Parser is modelled with an         *)
(* explicit stack of return labels in place of the JavaScript call stack.  *)
(***************************************************************************)
EXTENDS Integers, Sequences, FiniteSets, TLC

VARIABLES
    variant,        \* which source file runs: "complete" | "objects"
    input,          \* Lexer.input: the document
    position,       \* Lexer.position: 0-based cursor
    lpc,            \* where the running nextToken() call is ("idle": no call)
    value,          \* local `value` of scanString / scanNumber / scanKeyword
    hasDot,         \* local `hasDot` of scanNumber
    currentToken,   \* Parser.currentToken (its TokenType; "none" before the first)
    pc,             \* where the parser is
    stack,          \* return labels of the active parseObject / parseArray calls
    outcome,        \* what parseJSON gave its caller: none | true | false | threw
    error,          \* message of the Error thrown, "" when none
    stdout,         \* the line main printed with console.log
    exitCode        \* the process's exit code, -1 while it runs

vars == <<variant, input, position, lpc, value, hasDot, currentToken, pc, stack,
          outcome, error, stdout, exitCode>>

(***************************************************************************)
(* Bounds and the documents explored.                                      *)
(***************************************************************************)
MaxChunks == 4
MaxStepChunks == 3
MaxObjectChunks == 6

Quote == "\""

\* The pieces documents are built from: every character class scanToken
\* distinguishes is present.
Chunks ==
    { <<"{">>, <<"}">>, <<"[">>, <<"]">>, <<":">>, <<",">>,
      <<Quote, "a", Quote>>, <<Quote>>,
      <<"1">>, <<"0">>, <<"-">>, <<".">>, <<"e">>,
      <<"t", "r", "u", "e">>, <<" ">> }

\* The pieces of the documents given to the objects-only variant.
ObjectChunks ==
    { <<"{">>, <<"}">>, <<":">>, <<",">>, <<Quote, "a", Quote>>,
      <<"1">>, <<"0">> }

RECURSIVE Flatten(_)
Flatten(cs) == IF cs = <<>> THEN <<>> ELSE Head(cs) \o Flatten(Tail(cs))

DocsUpTo(C, n) == { Flatten(cs) : cs \in UNION { [1..k -> C] : k \in 0..n } }

(***************************************************************************)
(* Lexer                                                                   *)
(***************************************************************************)
Digits == {"0", "1", "2", "3", "4", "5", "6", "7", "8", "9"}
NonZeroDigits == Digits \ {"0"}
Letters ==
    {"a","b","c","d","e","f","g","h","i","j","k","l","m","n","o","p","q","r",
     "s","t","u","v","w","x","y","z",
     "A","B","C","D","E","F","G","H","I","J","K","L","M","N","O","P","Q","R",
     "S","T","U","V","W","X","Y","Z"}
Whitespace == {" ", "\t", "\n", "\r", "\f"}

\* this.input[pos]: the character, or undefined outside the string
CharAt(inp, pos) ==
    IF pos >= 0 /\ pos < Len(inp) THEN inp[pos + 1] ELSE "undefined"

\* /\d/.test(char)
isDigit(c) == c \in Digits

\* /[a-zA-Z]/.test(char); test() turns undefined into the text "undefined"
isAlpha(c) == c \in Letters \/ c = "undefined"

\* /\s/.test(char)
isSpace(c) == c \in Whitespace

isAtEnd(inp, pos) == pos >= Len(inp)

\* first index >= i of v that holds no digit (Len(v)+1 when there is none)
RECURSIVE SkipDigits(_, _)
SkipDigits(v, i) ==
    IF i <= Len(v) /\ v[i] \in Digits THEN SkipDigits(v, i + 1) ELSE i

\* /^-?(?:0|[1-9]\d*)(?:\.\d+)?(?:[eE][+-]?\d+)?$/.test(v)
NumberRegex(v) ==
    LET n  == Len(v)
        i0 == IF n >= 1 /\ v[1] = "-" THEN 2 ELSE 1
        i1 == IF i0 <= n /\ v[i0] = "0" THEN i0 + 1
              ELSE IF i0 <= n /\ v[i0] \in NonZeroDigits THEN SkipDigits(v, i0 + 1)
              ELSE 0
        f  == SkipDigits(v, i1 + 1)
        i2 == IF i1 > 0 /\ i1 <= n /\ v[i1] = "." /\ f > i1 + 1 THEN f ELSE i1
        k  == IF i2 + 1 <= n /\ v[i2 + 1] \in {"+", "-"} THEN i2 + 2 ELSE i2 + 1
        x  == SkipDigits(v, k)
        i3 == IF i2 > 0 /\ i2 <= n /\ v[i2] \in {"e", "E"} /\ x > k THEN x ELSE i2
    IN  i1 > 0 /\ i3 = n + 1

\* A lexer call in progress: L = [variant, pc, position, value, hasDot, tok, err].
Return(L, type) ==
    [L EXCEPT !.pc = "idle", !.tok = type, !.value = <<>>, !.hasDot = FALSE]
Throw(L, msg) ==
    [L EXCEPT !.pc = "threw", !.err = msg, !.value = <<>>, !.hasDot = FALSE]

\* nextToken with the cursor moved on as end-of-input is reported
nextToken_eofAdvance(inp, L) ==
    IF L.position < Len(inp) /\ isSpace(CharAt(inp, L.position))
    THEN [L EXCEPT !.position = @ + 1]
    ELSE IF isAtEnd(inp, L.position)
         THEN Return([L EXCEPT !.position = @ + 1], "EOF")
    ELSE [L EXCEPT !.pc = "scanToken"]

\* nextToken: skipWhitespace, one character per step, then isAtEnd
nextToken(inp, L) ==
    IF L.position < Len(inp) /\ isSpace(CharAt(inp, L.position))
    THEN [L EXCEPT !.position = @ + 1]
    ELSE IF isAtEnd(inp, L.position) THEN Return(L, "EOF")
    ELSE [L EXCEPT !.pc = "scanToken"]

scanToken(inp, L) ==
    LET char == CharAt(inp, L.position)
        M    == [L EXCEPT !.position = @ + 1]
    IN  CASE char = "{" -> Return(M, "LeftBrace")
          [] char = "}" -> Return(M, "RightBrace")
          [] char = ":" -> Return(M, "Colon")
          [] char = "," -> Return(M, "Comma")
          [] char = "[" -> Return(M, "LeftBracket")
          [] char = "]" -> Return(M, "RightBracket")
          [] char = Quote -> [M EXCEPT !.pc = "scanString", !.value = <<>>]
          [] OTHER ->
               IF isDigit(char) THEN [M EXCEPT !.pc = "scanNumber"]
               ELSE IF isAlpha(char)
                    THEN [M EXCEPT !.pc = "scanKeyword", !.value = <<char>>]
               ELSE Throw(M, "Unexpected character")

\* scanToken of the objects-only variant: no case for [ and ]
scanTokenObjects(inp, L) ==
    LET char == CharAt(inp, L.position)
        M    == [L EXCEPT !.position = @ + 1]
    IN  CASE char = "{" -> Return(M, "LeftBrace")
          [] char = "}" -> Return(M, "RightBrace")
          [] char = ":" -> Return(M, "Colon")
          [] char = "," -> Return(M, "Comma")
          [] char = Quote -> [M EXCEPT !.pc = "scanString", !.value = <<>>]
          [] OTHER ->
               IF isDigit(char)
               THEN [M EXCEPT !.pc = "scanNumber", !.value = <<char>>]
               ELSE IF isAlpha(char)
                    THEN [M EXCEPT !.pc = "scanKeyword", !.value = <<char>>]
               ELSE Throw(M, "Unexpected character")

\* scanNumber(startingChar) of the objects-only variant: a run of digits,
\* returned as it is
scanNumberObjects(inp, L) ==
    IF L.position < Len(inp) /\ isDigit(CharAt(inp, L.position))
    THEN [L EXCEPT !.value = Append(@, CharAt(inp, L.position)),
                   !.position = @ + 1]
    ELSE Return(L, "Number")

\* scanString without its test for a missing closing quote
scanString_nocheck(inp, L) ==
    IF L.position < Len(inp) /\ CharAt(inp, L.position) # Quote
    THEN [L EXCEPT !.value = Append(@, CharAt(inp, L.position)),
                   !.position = @ + 1]
    ELSE Return([L EXCEPT !.position = @ + 1], "String")
scanString(inp, L) ==
    IF L.position < Len(inp) /\ CharAt(inp, L.position) # Quote
    THEN [L EXCEPT !.value = Append(@, CharAt(inp, L.position)),
                   !.position = @ + 1]
    ELSE IF CharAt(inp, L.position) # Quote
         THEN Throw(L, "Unterminated string")
         ELSE Return([L EXCEPT !.position = @ + 1], "String")

\* scanNumber up to its loop: the cursor goes back onto the first digit
scanNumber(inp, L) ==
    IF CharAt(inp, L.position - 1) = "-"
    THEN [L EXCEPT !.pc = "scanNumberLoop", !.value = <<"-">>, !.hasDot = FALSE]
    ELSE [L EXCEPT !.pc = "scanNumberLoop", !.value = <<>>, !.hasDot = FALSE,
                   !.position = @ - 1]

\* one turn of scanNumber's loop, or the format test after it
scanNumberLoop(inp, L) ==
    LET char == CharAt(inp, L.position)
    IN  IF L.position < Len(inp) /\ isDigit(char)
        THEN [L EXCEPT !.value = Append(@, char), !.position = @ + 1]
        ELSE IF L.position < Len(inp) /\ char = "." /\ ~L.hasDot
        THEN [L EXCEPT !.value = Append(@, char), !.hasDot = TRUE,
                       !.position = @ + 1]
        ELSE IF ~NumberRegex(L.value) THEN Throw(L, "Invalid number format")
        ELSE Return(L, "Number")

scanKeyword(inp, L) ==
    IF L.position < Len(inp) /\ isAlpha(CharAt(inp, L.position))
    THEN [L EXCEPT !.value = Append(@, CharAt(inp, L.position)),
                   !.position = @ + 1]
    ELSE CASE L.value = <<"t", "r", "u", "e">> -> Return(L, "True")
           [] L.value = <<"f", "a", "l", "s", "e">> -> Return(L, "False")
           [] L.value = <<"n", "u", "l", "l">> -> Return(L, "Null")
           [] OTHER -> Throw(L, "Unexpected keyword")

\* one step of the call in progress
LexStep(inp, L) ==
    CASE L.pc = "nextToken"      -> nextToken(inp, L)
      [] L.pc = "scanToken"      ->
           IF L.variant = "complete" THEN scanToken(inp, L)
           ELSE scanTokenObjects(inp, L)
      [] L.pc = "scanString"     -> scanString(inp, L)
      [] L.pc = "scanNumber"     ->
           IF L.variant = "complete" THEN scanNumber(inp, L)
           ELSE scanNumberObjects(inp, L)
      [] L.pc = "scanNumberLoop" -> scanNumberLoop(inp, L)
      [] L.pc = "scanKeyword"    -> scanKeyword(inp, L)

\* the call run until it returns or throws
RECURSIVE LexRun(_, _)
LexRun(inp, L) ==
    IF L.pc \in {"idle", "threw"} THEN L ELSE LexRun(inp, LexStep(inp, L))

(***************************************************************************)
(* Parser, parseJSON, main                                                 *)
(***************************************************************************)
Start ==
    /\ position = 0
    /\ lpc = "idle"
    /\ value = <<>>
    /\ hasDot = FALSE
    /\ currentToken = "none"
    /\ pc = "parseJSON"
    /\ stack = <<>>
    /\ outcome = "none"
    /\ error = ""
    /\ stdout = ""
    /\ exitCode = -1

lexerLocals == <<position, lpc, value, hasDot>>
mainState == <<stdout, exitCode>>

Running == lpc = "idle" /\ outcome = "none"

\* advance(): this.currentToken = this.lexer.nextToken(), the call started here
advance ==
    /\ lpc' = "nextToken"
    /\ UNCHANGED <<variant, input, position, value, hasDot, currentToken, outcome,
                   error, mainState>>

\* a throw inside parse()'s try block: caught there, parse returns false
Fail(msg) ==
    /\ pc' = "returned"
    /\ stack' = <<>>
    /\ outcome' = "false"
    /\ error' = msg
    /\ UNCHANGED <<variant, input, lexerLocals, currentToken, mainState>>

\* no token is consumed on this path
Stay == UNCHANGED <<variant, input, lexerLocals, currentToken, outcome, error, mainState>>

\* a parseObject / parseArray call returns true to its caller
ReturnTrue == pc' = Head(stack) /\ stack' = Tail(stack)

\* new Parser(input): the first nextToken() call, before parse() is entered
ParserConstructor ==
    /\ Running /\ pc = "parseJSON"
    /\ pc' = "constructor"
    /\ UNCHANGED stack
    /\ advance

\* parse(): the dispatch on the root token inside the try block
parse ==
    /\ Running /\ pc = "constructor" /\ variant = "complete"
    /\ IF currentToken = "LeftBrace"
       THEN pc' = "parseObject" /\ stack' = <<"expectEOF">> /\ Stay
       ELSE IF currentToken = "LeftBracket"
       THEN pc' = "parseArray" /\ stack' = <<"expectEOF">> /\ Stay
       ELSE Fail("Root value must be an object or array")

\* parse() of the objects-only variant: parseObject() && expectEOF()
parseObjectsOnly ==
    /\ Running /\ pc = "constructor" /\ variant = "objects"
    /\ pc' = "parseObject" /\ stack' = <<"expectEOF">> /\ Stay

\* expect(expectedType) followed by a move to label `to`
expect(expectedType, to) ==
    IF currentToken # expectedType
    THEN Fail(IF variant = "complete" THEN "Syntax error <unexpected type>"
              ELSE "Expected ..., but got ...")
    ELSE pc' = to /\ UNCHANGED stack /\ advance

parseObject ==
    /\ Running /\ pc \in {"parseObject", "objectFirst", "objectAfter"}
    /\ CASE pc = "parseObject" -> expect("LeftBrace", "objectFirst")
         [] pc = "objectFirst" ->
              IF currentToken = "RightBrace"
              THEN ReturnTrue /\ advance
              ELSE pc' = "parseKeyValuePair" /\ UNCHANGED stack /\ Stay
         [] pc = "objectAfter" ->
              IF currentToken = "RightBrace"
              THEN ReturnTrue /\ advance
              ELSE expect("Comma", "parseKeyValuePair")

parseKeyValuePair ==
    /\ Running /\ pc \in {"parseKeyValuePair", "expectColon"}
    /\ IF pc = "parseKeyValuePair"
       THEN expect("String", "expectColon")
       ELSE expect("Colon", "memberValue")

\* parseInput(), called for a member's value or an array's element
parseInput ==
    /\ Running /\ pc \in {"memberValue", "elementValue"} /\ variant = "complete"
    /\ LET after == IF pc = "memberValue" THEN "objectAfter" ELSE "arrayAfter"
       IN  IF currentToken \in {"String", "Number", "True", "False", "Null"}
           THEN pc' = after /\ UNCHANGED stack /\ advance
           ELSE IF currentToken = "LeftBrace"
           THEN pc' = "parseObject" /\ stack' = <<after>> \o stack /\ Stay
           ELSE IF currentToken = "LeftBracket"
           THEN pc' = "parseArray" /\ stack' = <<after>> \o stack /\ Stay
           ELSE Fail("Unexpected value type")

\* parseValue() of the objects-only variant: scalars only
parseValue ==
    /\ Running /\ pc = "memberValue" /\ variant = "objects"
    /\ IF currentToken \in {"String", "Number", "True", "False", "Null"}
       THEN pc' = "objectAfter" /\ UNCHANGED stack /\ advance
       ELSE Fail("Unexpected value type")

parseArray ==
    /\ Running /\ pc \in {"parseArray", "arrayFirst", "arrayAfter"}
    /\ CASE pc = "parseArray" -> expect("LeftBracket", "arrayFirst")
         [] pc = "arrayFirst" ->
              IF currentToken = "RightBracket"
              THEN ReturnTrue /\ advance
              ELSE pc' = "elementValue" /\ UNCHANGED stack /\ Stay
         [] pc = "arrayAfter" ->
              IF currentToken = "RightBracket"
              THEN ReturnTrue /\ advance
              ELSE expect("Comma", "elementValue")

expectEOF ==
    /\ Running /\ pc = "expectEOF"
    /\ expect("EOF", "parseReturn")

\* parse() returns true: parseObject/parseArray and expectEOF both did
parseReturn ==
    /\ Running /\ pc = "parseReturn"
    /\ pc' = "returned"
    /\ outcome' = "true"
    /\ UNCHANGED <<variant, input, lexerLocals, currentToken, stack, error, mainState>>

\* main() after parseJSON: the two verdicts, or its own catch block, after
\* which the process ends by itself with Node's exit code 0
main ==
    /\ pc = "returned"
    /\ pc' = "exited"
    /\ CASE outcome = "true"  -> stdout' = "Valid JSON" /\ exitCode' = 0
         [] outcome = "false" -> stdout' = "Invalid JSON" /\ exitCode' = 1
         [] outcome = "threw" -> stdout' = "Error parsing JSON: " /\ exitCode' = 0
    /\ UNCHANGED <<variant, input, lexerLocals, currentToken, stack, outcome, error>>

\* The lexer call as it stands after a step or a run: still going, returned
\* to advance() / the constructor, or thrown.  A throw unwinds to the catch of
\* parse(); the constructor's call runs before parse() and nothing catches it
\* inside parseJSON.
Deliver(L) ==
    /\ position' = L.position
    /\ value' = L.value
    /\ hasDot' = L.hasDot
    /\ UNCHANGED <<variant, input, mainState>>
    /\ CASE L.pc = "threw" ->
              /\ lpc' = "idle"
              /\ pc' = "returned"
              /\ stack' = <<>>
              /\ outcome' = IF pc = "constructor" THEN "threw" ELSE "false"
              /\ error' = L.err
              /\ UNCHANGED currentToken
         [] L.pc = "idle" ->
              /\ lpc' = "idle"
              /\ currentToken' = L.tok
              /\ UNCHANGED <<pc, stack, outcome, error>>
         [] OTHER ->
              /\ lpc' = L.pc
              /\ UNCHANGED <<currentToken, pc, stack, outcome, error>>

Call == [variant |-> variant, pc |-> lpc, position |-> position, value |-> value,
         hasDot |-> hasDot, tok |-> "none", err |-> ""]

\* lexer.nextToken(), the whole call
NextToken ==
    /\ lpc = "nextToken"
    /\ Deliver(LexRun(input, Call))

\* lexer.nextToken(), one step of it
LexerStep ==
    /\ lpc # "idle"
    /\ Deliver(LexStep(input, Call))

ParserStep ==
    \/ ParserConstructor
    \/ parse
    \/ parseObject
    \/ parseKeyValuePair
    \/ parseInput
    \/ parseArray
    \/ expectEOF
    \/ parseReturn
    \/ main

\* the complete-grammar variant, each nextToken() call one step
Next == ParserStep \/ NextToken

Init == variant = "complete" /\ input \in DocsUpTo(Chunks, MaxChunks) /\ Start

Spec == Init /\ [][Next]_vars

\* the complete-grammar variant, the lexer one cursor move at a time
NextSteps == ParserStep \/ LexerStep

InitSteps ==
    variant = "complete" /\ input \in DocsUpTo(Chunks, MaxStepChunks) /\ Start

SpecSteps == InitSteps /\ [][NextSteps]_vars

\* the objects-only variant of src/json-parser.ts
NextObjects ==
    \/ ParserConstructor
    \/ parseObjectsOnly
    \/ parseObject
    \/ parseKeyValuePair
    \/ parseValue
    \/ expectEOF
    \/ parseReturn
    \/ main
    \/ NextToken

InitObjects ==
    variant = "objects" /\ input \in DocsUpTo(ObjectChunks, MaxObjectChunks) /\ Start

SpecObjects == InitObjects /\ [][NextObjects]_vars

(***************************************************************************)
(* The grammar the claims speak of, read off the document itself:           *)
(* root object or array; members string-colon-value; values strings,       *)
(* numbers (an optional minus, 0 or a digit run without leading zero, an   *)
(* optional fraction, an optional exponent), true, false, null, objects,   *)
(* arrays; whitespace between tokens; no trailing data.                    *)
(***************************************************************************)
Range(t) == { t[i] : i \in 1..Len(t) }

JsonWhitespace == {" ", "\t", "\n", "\r"}

\* the end of the longest number lexeme that starts at i, 0 when none does
LongestNumber(d, i) ==
    LET ends == { j \in i..Len(d) : NumberRegex(SubSeq(d, i, j)) }
    IN  IF ends = {} THEN 0 ELSE CHOOSE j \in ends : \A k \in ends : k <= j

\* the index of the first quote at or after i, 0 when there is none
NextQuote(d, i) ==
    LET qs == { j \in i..Len(d) : d[j] = Quote }
    IN  IF qs = {} THEN 0 ELSE CHOOSE j \in qs : \A k \in qs : j <= k

StartsWith(d, i, w) == i + Len(w) - 1 <= Len(d) /\ SubSeq(d, i, i + Len(w) - 1) = w

\* the token kinds of d from index i on; "Bad" ends the list at the first
\* place where no token of the grammar starts
RECURSIVE GrammarTokens(_, _)
GrammarTokens(d, i) ==
    IF i > Len(d) THEN <<>>
    ELSE LET c == d[i] IN
         CASE c \in JsonWhitespace -> GrammarTokens(d, i + 1)
           [] c = "{" -> <<"LeftBrace">> \o GrammarTokens(d, i + 1)
           [] c = "}" -> <<"RightBrace">> \o GrammarTokens(d, i + 1)
           [] c = "[" -> <<"LeftBracket">> \o GrammarTokens(d, i + 1)
           [] c = "]" -> <<"RightBracket">> \o GrammarTokens(d, i + 1)
           [] c = ":" -> <<"Colon">> \o GrammarTokens(d, i + 1)
           [] c = "," -> <<"Comma">> \o GrammarTokens(d, i + 1)
           [] c = Quote ->
                IF NextQuote(d, i + 1) = 0 THEN <<"Bad">>
                ELSE <<"String">> \o GrammarTokens(d, NextQuote(d, i + 1) + 1)
           [] c \in Digits \cup {"-"} ->
                IF LongestNumber(d, i) = 0 THEN <<"Bad">>
                ELSE <<"Number">> \o GrammarTokens(d, LongestNumber(d, i) + 1)
           [] StartsWith(d, i, <<"t", "r", "u", "e">>) ->
                <<"True">> \o GrammarTokens(d, i + 4)
           [] StartsWith(d, i, <<"f", "a", "l", "s", "e">>) ->
                <<"False">> \o GrammarTokens(d, i + 5)
           [] StartsWith(d, i, <<"n", "u", "l", "l">>) ->
                <<"Null">> \o GrammarTokens(d, i + 4)
           [] OTHER -> <<"Bad">>

Scalars == {"String", "Number", "True", "False", "Null"}

\* the index after the value / members / elements that start at t[i], 0 when
\* none does
RECURSIVE GrammarValue(_, _), GrammarMembers(_, _), GrammarElements(_, _)
GrammarValue(t, i) ==
    IF i > Len(t) THEN 0
    ELSE CASE t[i] \in Scalars -> i + 1
           [] t[i] = "LeftBrace" ->
                IF i + 1 <= Len(t) /\ t[i + 1] = "RightBrace" THEN i + 2
                ELSE GrammarMembers(t, i + 1)
           [] t[i] = "LeftBracket" ->
                IF i + 1 <= Len(t) /\ t[i + 1] = "RightBracket" THEN i + 2
                ELSE GrammarElements(t, i + 1)
           [] OTHER -> 0
GrammarMembers(t, i) ==
    IF i + 1 <= Len(t) /\ t[i] = "String" /\ t[i + 1] = "Colon"
    THEN LET j == GrammarValue(t, i + 2)
         IN  IF j = 0 \/ j > Len(t) THEN 0
             ELSE IF t[j] = "RightBrace" THEN j + 1
             ELSE IF t[j] = "Comma" THEN GrammarMembers(t, j + 1)
             ELSE 0
    ELSE 0
GrammarElements(t, i) ==
    LET j == GrammarValue(t, i)
    IN  IF j = 0 \/ j > Len(t) THEN 0
        ELSE IF t[j] = "RightBracket" THEN j + 1
        ELSE IF t[j] = "Comma" THEN GrammarElements(t, j + 1)
        ELSE 0

\* d is one value, an object or an array, and nothing else
WellFormed(d) ==
    LET t == GrammarTokens(d, 1)
    IN  /\ t # <<>>
        /\ t[1] \in {"LeftBrace", "LeftBracket"}
        /\ GrammarValue(t, 1) = Len(t) + 1

\* d is one scalar and nothing else
BareScalar(d) ==
    LET t == GrammarTokens(d, 1) IN Len(t) = 1 /\ t[1] \in Scalars

\* d is empty or holds whitespace only
Blank(d) == \A i \in 1..Len(d) : d[i] \in JsonWhitespace

\* d starts with a complete value and something other than whitespace follows
TrailingContent(d) ==
    LET t == GrammarTokens(d, 1)
    IN  GrammarValue(t, 1) \in 2..Len(t)

\* index i of d lies outside every string: an even number of quotes before it
Outside(d, i) ==
    d[i] # Quote /\ Cardinality({ j \in 1..(i - 1) : d[j] = Quote }) % 2 = 0

Opener(c) == IF c = "}" THEN "{" ELSE "["

\* the openers still open after the first i characters of d, the innermost
\* first; "x" marks a closer that met no opener of its kind
RECURSIVE Open(_, _)
Open(d, i) ==
    IF i = 0 THEN <<>>
    ELSE LET s == Open(d, i - 1) IN
         IF ~Outside(d, i) THEN s
         ELSE IF d[i] \in {"{", "["} THEN <<d[i]>> \o s
         ELSE IF d[i] \in {"}", "]"}
              THEN IF s # <<>> /\ Head(s) = Opener(d[i]) THEN Tail(s)
                   ELSE <<"x">> \o s
         ELSE s

Unbalanced(d) == Open(d, Len(d)) # <<>>

\* an object or an array of d (an opener and the closer of its kind that
\* closes it) has a comma right before its closer, whitespace apart
TrailingComma(d) ==
    \E i \in 1..Len(d) : \E j \in (i + 1)..Len(d) :
        /\ d[i] = "," /\ Outside(d, i)
        /\ d[j] \in {"}", "]"} /\ Outside(d, j)
        /\ \A k \in (i + 1)..(j - 1) : d[k] \in JsonWhitespace
        /\ Open(d, j - 1) # <<>> /\ Head(Open(d, j - 1)) = Opener(d[j])

NumberChars == Digits \cup {"-", "+", ".", "e", "E"}

\* d holds, outside its strings, a numeric literal (a longest run of number
\* characters that starts a token with a digit or a minus sign and holds a
\* digit) that is not of the number form
MalformedNumber(d) ==
    \E i \in 1..Len(d) : \E j \in i..Len(d) :
        /\ \A k \in i..j : d[k] \in NumberChars /\ Outside(d, k)
        /\ d[i] \in Digits \cup {"-"}
        /\ \E k \in i..j : d[k] \in Digits
        /\ i = 1 \/ d[i - 1] \notin (NumberChars \cup Letters)
        /\ j = Len(d) \/ d[j + 1] \notin NumberChars
        /\ ~NumberRegex(SubSeq(d, i, j))

Returned == outcome # "none"

(***************************************************************************)
(* The claims                                                              *)
(***************************************************************************)

\* C1: for every input string parseJSON returns a boolean and never throws
\* across its own boundary, a lexical failure on the very first token
\* included.
C1_NeverThrows == outcome \in {"none", "true", "false"}

\* C2: for every document that is well-formed under the grammar, parseJSON
\* returns true.
C2_WellFormedAccepted == Returned /\ WellFormed(input) => outcome = "true"

\* C3: parseJSON returns true only for exactly one root object or array
\* followed by end-of-input; a bare scalar root, an empty or whitespace-only
\* document and a document with content after the root value yield false.
C3_RootAndEnd ==
    Returned =>
        /\ outcome = "true" => WellFormed(input)
        /\ BareScalar(input) \/ Blank(input) \/ TrailingContent(input)
               => outcome = "false"

\* C4: for any document in which an object or an array has a comma
\* immediately before its closer, at any depth, parseJSON returns false.
C4_TrailingCommaRejected == Returned /\ TrailingComma(input) => outcome = "false"

\* C5: for any document whose brackets or braces are unbalanced or
\* mismatched, parseJSON returns false.
C5_UnbalancedRejected == Returned /\ Unbalanced(input) => outcome = "false"

\* C6: parseJSON returns false for any document that holds a numeric literal
\* not of the number form, such as a leading zero followed by digits.
C6_MalformedNumberRejected ==
    Returned /\ MalformedNumber(input) => outcome = "false"

\* C7: main prints "Valid JSON" and exits with code 0 for a valid document,
\* prints "Invalid JSON" and exits with code 1 for an invalid one; no invalid
\* document ends with exit code 0.
C7_ExitCodes ==
    pc = "exited" =>
        IF WellFormed(input)
        THEN stdout = "Valid JSON" /\ exitCode = 0
        ELSE stdout = "Invalid JSON" /\ exitCode = 1

\* an array that holds one lexeme of the number form and nothing else
ArrayOfOneNumber(d) ==
    /\ Len(d) >= 3 /\ d[1] = "[" /\ d[Len(d)] = "]"
    /\ NumberRegex(SubSeq(d, 2, Len(d) - 1))

\* C8: in the complete-grammar variant nextToken lexes a lexeme of the number
\* form (minus sign, fraction and exponent included) at a value position as
\* one Number token, and the array that holds it is accepted.
C8_NumberIsOneToken ==
    ArrayOfOneNumber(input) =>
        /\ pc = "arrayFirst" /\ lpc = "idle"
               => currentToken = "Number" /\ position = Len(input) - 1
        /\ Returned => outcome = "true"

\* C9 as stated: no step of the scanner ever decreases the cursor, and the
\* cursor never exceeds the input length.
C9_NoStepBack ==
    [][position' >= position]_vars /\ [](position <= Len(input))

\* C9 as amended: the cursor never exceeds the input length, and no step
\* decreases it except the first step of scanNumber, which moves it back by
\* exactly one, onto the digit scanToken has just consumed; the loop of
\* scanNumber then starts on that digit.
C9_StepBackOnlyInScanNumber ==
    /\ [][\/ position' >= position
          \/ /\ lpc = "scanNumber"
             /\ position' = position - 1
             /\ isDigit(CharAt(input, position'))]_vars
    /\ [](position <= Len(input))
    /\ [](lpc = "scanNumberLoop" /\ value = <<>>
              => isDigit(CharAt(input, position)))

\* scanNumber has just moved the cursor back
C9_Witness == lpc = "scanNumberLoop" /\ value = <<>> /\ position > 0

\* C10: once nextToken has returned end-of-input, the next call returns
\* end-of-input too, throws nothing and leaves the cursor where it is.
C10_EofIdempotent ==
    [][currentToken = "EOF" /\ lpc # "idle"
           => /\ lpc' = "idle"
              /\ currentToken' = "EOF"
              /\ position' = position
              /\ outcome' = outcome
              /\ error' = error]_vars

\* expectEOF's advance() has called nextToken after end-of-input and the
\* call has returned
C10_Witness == pc = "parseReturn" /\ lpc = "idle" /\ currentToken = "EOF"

====
